---- MODULE Spec2Model ----
(***************************************************************************)
(* Model of the animation driver of enhanced_matplotlib_flower.py: the     *)
(* module-level animation state, the drawable handles' attributes, and the *)
(* per-frame callback animate(frame) invoked by FuncAnimation.             *)
(*                                                                         *)
(* Real numbers are exact fixed-point integers in units of 1/Scale: every  *)
(* fraction the code computes (f/40, e/20, x*0.7, x*1.2, ...) is a         *)
(* multiple of 1/Scale, so no rounding happens in the model.               *)
(* Points that the code computes with cos/sin are kept in the coordinate   *)
(* frame of the angle they are computed from (along the axis, across it).  *)
(***************************************************************************)
EXTENDS Integers, Sequences, FiniteSets

\* ---- Animation parameters (lines 36-51) ----
num_petals == 12
petal_length == 50
petal_width == 30
center_radius == 25
stem_height == 220
leaf_size == 30
total_frames == 600
center_fade_duration == 40
bloom_duration == 40
bloom_stagger == 20
unfurl_duration == 20
unfurl_stagger == 10
phase_delay == 20
label_duration == 10

\* Fixed-point unit: 1.0 is Scale. A multiple of every duration and of 100.
Scale == center_fade_duration * label_duration

\* sway_speed = 0.03
sway_speed == (3 * Scale) \div 100

leaf_positions == <<-70, -10, 60>>

\* len(leaves): a left and a right leaf per entry of leaf_positions
num_leaves == 2 * Len(leaf_positions)

\* Number of animate() evaluations explored (the host never stops by itself).
MaxEvals == 700

Min(a, b) == IF a <= b THEN a ELSE b
Max(a, b) == IF a >= b THEN a ELSE b

\* x * (num/den) for a fixed-point x
Times(x, num, den) == (x * num) \div den

VARIABLES
    frame_count, current_petal_index, animation_phase,
    petal_bloom_starts, leaf_unfurl_starts, sway_angle,
    center_alpha, title_alpha, title_pos, label_text, label_alpha,
    petal_path, petal_alpha, stem_data, stem_alpha,
    leaf_width, leaf_height, leaf_alpha, leaf_center,
    next_frame, evals,
    frame, entry_phase, phase_calls, progress_applied

vars == <<frame_count, current_petal_index, animation_phase,
          petal_bloom_starts, leaf_unfurl_starts, sway_angle,
          center_alpha, title_alpha, title_pos, label_text, label_alpha,
          petal_path, petal_alpha, stem_data, stem_alpha,
          leaf_width, leaf_height, leaf_alpha, leaf_center,
          next_frame, evals,
          frame, entry_phase, phase_calls, progress_applied>>

\* ---- Geometry helpers ----

\* The rotation by `angle`, kept as its angle (fixed-point radians).
get_rotation_matrix(angle) == [rot |-> angle]

\* rotation_matrix @ v: the vector v turned by the matrix's angle.
Rotated(matrix, v) == [v |-> v, rot |-> matrix.rot]

Origin == Rotated(get_rotation_matrix(0), <<0, 0>>)

\* Petal outline. Vertices are <<along, across>> offsets from the center in
\* the frame of the petal axis angle_deg + rotation:
\*   center + L*(cos(a - pi/2), sin(a - pi/2))  is  <<0, -L>>
\*   center + L*(cos a, sin a)                  is  <<L, 0>>
\*   mid + (-w/2 sin a, w/2 cos a)              is  <<L/2, w/2>>
\* verts is built as the code builds it: four points, then two inserts.
\* The result is the pair handed to Path(verts, codes) at line 87; what the
\* plotting library does with it is outside this module.
InsertAt(s, k, e) == SubSeq(s, 1, k) \o <<e>> \o SubSeq(s, k + 1, Len(s))

\* Variant: the tip is placed at the petal length, not 1.2 times it.
create_petal_path_ShortTip(center, angle_deg, length, width, rotation) ==
    LET verts0 == << <<0, -length>>,
                     <<length, 0>>,
                     <<0, length>>,
                     <<0, -Times(length, 8, 10)>> >>
        mid == Times(length, 5, 10)
        verts1 == InsertAt(verts0, 2, <<mid, Times(width, 1, 2)>>)
        verts2 == InsertAt(verts1, 3, <<mid, -Times(width, 1, 2)>>)
    IN  [center |-> center,
         axis   |-> angle_deg + rotation,
         verts  |-> verts2,
         codes  |-> <<"MOVETO", "CURVE3", "CURVE3", "CURVE3", "CLOSEPOLY">>]

create_petal_path(center, angle_deg, length, width, rotation) ==
    LET verts0 == << <<0, -length>>,
                     <<Times(length, 12, 10), 0>>,
                     <<0, length>>,
                     <<0, -Times(length, 8, 10)>> >>
        mid == Times(length, 5, 10)
        verts1 == InsertAt(verts0, 2, <<mid, Times(width, 1, 2)>>)
        verts2 == InsertAt(verts1, 3, <<mid, -Times(width, 1, 2)>>)
    IN  [center |-> center,
         axis   |-> angle_deg + rotation,
         verts  |-> verts2,
         codes  |-> <<"MOVETO", "CURVE3", "CURVE3", "CURVE3", "CLOSEPOLY">>]

\* i * (360 / num_petals), in fixed-point degrees (i counted from 0)
BaseAngle(i) == i * (360 \div num_petals) * Scale

\* ---- Initial state (lines 53-60, 90-128) ----
Init ==
    /\ frame_count = 0
    /\ current_petal_index = 0
    /\ animation_phase = 0
    /\ petal_bloom_starts = [i \in 1..num_petals |-> 0]
    /\ leaf_unfurl_starts = [i \in 1..((num_petals \div 2) * 2) |-> 0]
    /\ sway_angle = 0
    /\ center_alpha = 0
    /\ title_alpha = 0
    /\ title_pos = [sway |-> 0, y |-> 120 * Scale]
    /\ label_text = ""
    /\ label_alpha = 0
    /\ petal_path = [i \in 1..num_petals |->
                        create_petal_path(Origin, BaseAngle(i - 1), 0, 0, 0)]
    /\ petal_alpha = [i \in 1..num_petals |-> 0]
    /\ stem_data = <<>>
    /\ stem_alpha = 0
    /\ leaf_width = [i \in 1..num_leaves |-> 0]
    /\ leaf_height = [i \in 1..num_leaves |-> 0]
    /\ leaf_alpha = [i \in 1..num_leaves |-> 0]
    /\ leaf_center = [i \in 1..num_leaves |->
                        Rotated(get_rotation_matrix(0),
                                <<IF i % 2 = 1 THEN -40 ELSE 40,
                                  leaf_positions[(i + 1) \div 2]>>)]
    /\ next_frame = 0
    /\ evals = 0
    /\ frame = 0
    /\ entry_phase = 0
    /\ phase_calls = 0
    /\ progress_applied = {}

\* ---- Per-phase timing logic of animate(frame) ----

\* Phase 0: progress = min(frame / center_fade_duration, 1)
CenterProgress(f) == Min((f * Scale) \div center_fade_duration, Scale)

\* Phase 0 label: min((frame % 20) / 10, 1) if frame < 20 else 0
CenterLabelAlpha(f) ==
    IF f < label_duration * 2
    THEN Min(((f % (label_duration * 2)) * Scale) \div label_duration, Scale)
    ELSE 0

\* Phases 1 and 2 label: min(lp, 1) if lp < 1 else max(2 - lp, 0),
\* lp = (frame % (label_duration * 3)) / label_duration
BlinkLabelAlpha(f) ==
    LET label_progress == ((f % (label_duration * 3)) * Scale) \div label_duration
    IN  IF label_progress < Scale
        THEN Min(label_progress, Scale)
        ELSE Max(2 * Scale - label_progress, 0)

\* Variant: the inter-phase pause is left out.
CenterDone_NoDelay(f) == f >= center_fade_duration

\* if frame >= center_fade_duration + phase_delay
CenterDone(f) == f >= center_fade_duration + phase_delay

\* Variant: the sentinel 0 passes the started test.
PetalStarted_IncludesSentinel(start) == start >= 0

\* if petal_bloom_starts[i] > 0
PetalStarted(start) == start > 0

\* Variant: the bloom progress is not clamped at 1.
PetalProgress_Unclamped(f, start) == ((f - start) * Scale) \div bloom_duration

\* Phase 1: progress = min((frame - petal_bloom_starts[i]) / bloom_duration, 1)
PetalProgress(f, start) == Min(((f - start) * Scale) \div bloom_duration, Scale)

\* Variant: the launch test uses bloom_duration as its interval.
PetalTrigger_WrongInterval(f, idx) == f % bloom_duration = 0 /\ idx < num_petals

\* Variant: the launch interval is half of bloom_stagger.
PetalTrigger_HalfStagger(f, idx) ==
    f % (bloom_stagger \div 2) = 0 /\ idx < num_petals

\* if frame % bloom_stagger == 0 and current_petal_index < num_petals
PetalTrigger(f, idx) == f % bloom_stagger = 0 /\ idx < num_petals

\* Variant: the index test is strict, so it never passes (the index stops
\* at num_petals).
PetalsDone_StrictIndex(idx, f, starts) ==
    idx > num_petals /\ f - starts[Len(starts)] >= bloom_duration

\* Variant: the duration test is strict, one frame late.
PetalsDone_StrictDuration(idx, f, starts) ==
    idx >= num_petals /\ f - starts[Len(starts)] > bloom_duration

\* Variant: the wait after the last launch is bloom_stagger, not bloom_duration.
PetalsDone_WrongDuration(idx, f, starts) ==
    idx >= num_petals /\ f - starts[Len(starts)] >= bloom_stagger

\* if current_petal_index >= num_petals
\*    and frame - petal_bloom_starts[-1] >= bloom_duration
PetalsDone(idx, f, starts) ==
    idx >= num_petals /\ f - starts[Len(starts)] >= bloom_duration

\* side_delay = 0 if i % 2 == 0 else unfurl_stagger  (i counted from 0)
SideDelay(i) == IF i % 2 = 0 THEN 0 ELSE unfurl_stagger

\* if leaf_unfurl_starts[i] == 0 and frame % unfurl_duration == side_delay
LeafTrigger(start, f, i) == start = 0 /\ f % unfurl_duration = SideDelay(i)

\* Variant: the unfurl progress is not clamped at 1.
LeafProgress_Unclamped(f, start) == ((f - start) * Scale) \div unfurl_duration

\* Phase 2: progress = min((frame - leaf_unfurl_starts[i]) / unfurl_duration, 1)
LeafProgress(f, start) == Min(((f - start) * Scale) \div unfurl_duration, Scale)

\* Variant: the test ranges over every entry of leaf_unfurl_starts instead
\* of the leaves.
AllLeavesDone_AllEntries(f, starts) ==
    \A i \in DOMAIN starts : starts[i] > 0 /\ f - starts[i] >= unfurl_duration

\* all(leaf_unfurl_starts[i] > 0 and frame - leaf_unfurl_starts[i]
\*     >= unfurl_duration for i in range(len(leaves)))
AllLeavesDone(f, starts) ==
    \A i \in 1..num_leaves : starts[i] > 0 /\ f - starts[i] >= unfurl_duration

\* ---- The host: FuncAnimation(frames=total_frames, repeat=True) ----
\* Frames 0 .. total_frames-1 are delivered in order, then again from 0.
Deliver(f) ==
    /\ evals < MaxEvals
    /\ f = next_frame
    /\ next_frame' = (f + 1) % total_frames
    /\ evals' = evals + 1

\* Variant: the sway angle advances only in the Sway phase.
Prologue_SwayOnlyInSway(f) ==
    /\ sway_angle' = IF animation_phase = 3
                     THEN sway_angle + sway_speed ELSE sway_angle
    /\ frame' = f
    /\ entry_phase' = animation_phase

\* Lines 131-137, common to every phase; the bookkeeping of the call.
Prologue(f) ==
    /\ sway_angle' = sway_angle + sway_speed
    /\ frame' = f
    /\ entry_phase' = animation_phase

\* Lines 246-248: center_alpha = 1 if animation_phase > 0 else 0
\* phase_calls counts the evaluations since frame_count was last reset to 0
\* by a transition (lines 150, 181, 213).
Epilogue ==
    /\ center_alpha' = IF animation_phase' > 0 THEN Scale ELSE 0
    /\ phase_calls' = IF animation_phase' # animation_phase
                      THEN 0 ELSE phase_calls + 1

\* ---- animate(frame), phase 0: center fade-in (lines 140-150) ----
AnimateCenter ==
    \E f \in 0..(total_frames - 1) :
        /\ Deliver(f)
        /\ animation_phase = 0
        /\ Prologue(f)
        /\ LET progress == CenterProgress(f) IN
            /\ title_alpha' = progress
            /\ progress_applied' = {progress}
        /\ label_text' = "Center Appearing..."
        /\ label_alpha' = CenterLabelAlpha(f)
        /\ IF CenterDone(f)
           THEN /\ animation_phase' = 1
                /\ current_petal_index' = 0
                /\ frame_count' = 0
           ELSE /\ frame_count' = f
                /\ UNCHANGED <<animation_phase, current_petal_index>>
        /\ UNCHANGED <<petal_bloom_starts, leaf_unfurl_starts, title_pos,
                       petal_path, petal_alpha, stem_data, stem_alpha,
                       leaf_width, leaf_height, leaf_alpha, leaf_center>>
        /\ Epilogue

\* ---- animate(frame), phase 1: petals bloom (lines 153-181) ----
AnimatePetals ==
    \E f \in 0..(total_frames - 1) :
        /\ Deliver(f)
        /\ animation_phase = 1
        /\ Prologue(f)
        /\ label_text' = "Petals Blooming..."
        /\ label_alpha' = BlinkLabelAlpha(f)
        /\ petal_path' = [i \in 1..num_petals |->
              IF PetalStarted(petal_bloom_starts[i])
                 /\ PetalProgress(f, petal_bloom_starts[i]) > 0
              THEN LET progress == PetalProgress(f, petal_bloom_starts[i])
                   IN  create_petal_path(Origin, BaseAngle(i - 1),
                                         petal_length * progress,
                                         petal_width * progress,
                                         progress * 15)
              ELSE petal_path[i]]
        /\ petal_alpha' = [i \in 1..num_petals |->
              IF PetalStarted(petal_bloom_starts[i])
              THEN LET progress == PetalProgress(f, petal_bloom_starts[i])
                   IN  IF progress > 0 THEN progress ELSE 0
              ELSE petal_alpha[i]]
        /\ progress_applied' =
              {PetalProgress(f, petal_bloom_starts[i]) :
                  i \in {j \in 1..num_petals : PetalStarted(petal_bloom_starts[j])}}
        /\ IF PetalTrigger(f, current_petal_index)
           THEN /\ petal_bloom_starts' =
                      [petal_bloom_starts EXCEPT ![current_petal_index + 1] = f]
                /\ current_petal_index' = current_petal_index + 1
           ELSE UNCHANGED <<petal_bloom_starts, current_petal_index>>
        /\ IF PetalsDone(current_petal_index', f, petal_bloom_starts')
           THEN /\ animation_phase' = 2
                /\ frame_count' = 0
           ELSE /\ frame_count' = f
                /\ UNCHANGED animation_phase
        /\ UNCHANGED <<leaf_unfurl_starts, title_alpha, title_pos,
                       stem_data, stem_alpha,
                       leaf_width, leaf_height, leaf_alpha, leaf_center>>
        /\ Epilogue

\* ---- animate(frame), phase 2: stem and leaves (lines 184-213) ----
AnimateStemLeaves ==
    \E f \in 0..(total_frames - 1) :
        /\ Deliver(f)
        /\ animation_phase = 2
        /\ Prologue(f)
        /\ label_text' = "Leaves Unfurling..."
        /\ label_alpha' = BlinkLabelAlpha(f)
        /\ IF f = 0
           THEN /\ stem_data' = <<<<0, 0>>, <<center_radius, stem_height>>>>
                /\ stem_alpha' = Scale
           ELSE UNCHANGED <<stem_data, stem_alpha>>
        /\ leaf_unfurl_starts' = [i \in DOMAIN leaf_unfurl_starts |->
              IF i <= num_leaves /\ LeafTrigger(leaf_unfurl_starts[i], f, i - 1)
              THEN f ELSE leaf_unfurl_starts[i]]
        /\ leaf_width' = [i \in 1..num_leaves |->
              IF leaf_unfurl_starts'[i] > 0
              THEN leaf_size * LeafProgress(f, leaf_unfurl_starts'[i])
              ELSE leaf_width[i]]
        /\ leaf_height' = [i \in 1..num_leaves |->
              IF leaf_unfurl_starts'[i] > 0
              THEN Times(leaf_size * LeafProgress(f, leaf_unfurl_starts'[i]), 7, 10)
              ELSE leaf_height[i]]
        /\ leaf_alpha' = [i \in 1..num_leaves |->
              IF leaf_unfurl_starts'[i] > 0
              THEN LeafProgress(f, leaf_unfurl_starts'[i])
              ELSE leaf_alpha[i]]
        /\ progress_applied' =
              {LeafProgress(f, leaf_unfurl_starts'[i]) :
                  i \in {j \in 1..num_leaves : leaf_unfurl_starts'[j] > 0}}
        /\ IF AllLeavesDone(f, leaf_unfurl_starts')
           THEN /\ animation_phase' = 3
                /\ frame_count' = 0
           ELSE /\ frame_count' = f
                /\ UNCHANGED animation_phase
        /\ UNCHANGED <<current_petal_index, petal_bloom_starts,
                       title_alpha, title_pos, petal_path, petal_alpha,
                       leaf_center>>
        /\ Epilogue

\* ---- animate(frame), phase 3: sway (lines 216-244) ----
AnimateSway ==
    \E f \in 0..(total_frames - 1) :
        /\ Deliver(f)
        /\ animation_phase = 3
        /\ Prologue(f)
        /\ label_text' = "Flower Swaying..."
        /\ label_alpha' = Times(Scale, 7, 10)
        /\ LET rotation_matrix == get_rotation_matrix(sway_angle') IN
            /\ petal_path' = [i \in 1..num_petals |->
                  \* (dx, dy) = petal_length/2 in the direction base_angle
                  create_petal_path(
                      Rotated(rotation_matrix,
                              <<Times(petal_length * Scale, 1, 2), BaseAngle(i - 1)>>),
                      BaseAngle(i - 1), petal_length * Scale,
                      petal_width * Scale, 0)]
            /\ leaf_center' = [i \in 1..num_leaves |->
                  Rotated(rotation_matrix,
                          <<IF (i - 1) % 2 = 0 THEN -50 ELSE 50,
                            leaf_positions[((i - 1) \div 2) + 1]>>)]
        /\ petal_alpha' = [i \in 1..num_petals |-> Scale]
        /\ leaf_width' = [i \in 1..num_leaves |-> leaf_size * Scale]
        /\ leaf_height' = [i \in 1..num_leaves |-> Times(leaf_size * Scale, 7, 10)]
        /\ leaf_alpha' = [i \in 1..num_leaves |-> Scale]
        \* title x = sin(sway_angle * 2) * 5 * 0.01, y = 1.1
        /\ title_pos' = [sway |-> sway_angle' * 2, y |-> Times(Scale, 11, 10)]
        /\ progress_applied' = {}
        /\ frame_count' = f
        /\ UNCHANGED <<animation_phase, current_petal_index,
                       petal_bloom_starts, leaf_unfurl_starts,
                       title_alpha, stem_data, stem_alpha>>
        /\ Epilogue

Next ==
    \/ AnimateCenter
    \/ AnimatePetals
    \/ AnimateStemLeaves
    \/ AnimateSway

Spec == Init /\ [][Next]_vars

\* The host timer keeps delivering frames: the callback runs on every tick.
LiveSpec == Spec /\ WF_vars(Next)

\* ======================= Properties =======================

\* Phases: 0 Center, 1 Petals, 2 StemLeaves, 3 Sway
InUnit(x) == 0 <= x /\ x <= Scale

StartedPetals == {i \in 1..num_petals : petal_bloom_starts[i] > 0}

\* Every petal is started and its bloom duration has elapsed at the frame of
\* the last evaluation: all 12 report progress = 1.
AllPetalsComplete ==
    \A i \in 1..num_petals :
        petal_bloom_starts[i] > 0 /\ frame - petal_bloom_starts[i] >= bloom_duration

\* C1: the phase goes Center, Petals, StemLeaves, Sway in that order: every
\* step keeps the phase or raises it by exactly 1 (so no transition happens
\* twice), Sway is never left, and the run does reach Sway, so each of the
\* three transitions happens exactly once.
C1_PhaseOrder ==
    /\ [][/\ animation_phase' \in {animation_phase, animation_phase + 1}
          /\ animation_phase' \in 0..3
          /\ (animation_phase = 3 => animation_phase' = 3)]_vars
    /\ <>[](animation_phase = 3)

\* Sway evaluated after the host has wrapped the frame index around.
C1_Witness ==
    animation_phase = 3 /\ entry_phase = 3 /\ evals > total_frames

\* C2: after every evaluation made in the Center phase the center disk's
\* opacity is min(f / center_fade_duration, 1); it never decreases from one
\* Center evaluation to the next and stays within [0,1].
C2_CenterOpacity ==
    [][entry_phase' = 0 =>
          /\ center_alpha' = Min((frame' * Scale) \div center_fade_duration, Scale)
          /\ center_alpha' >= center_alpha
          /\ InUnit(center_alpha')]_vars

\* C3: from the first evaluation made in StemLeaves on, through StemLeaves and
\* Sway, the stem is fully visible: opacity 1, drawn from the center edge to
\* stem_height.
C3_StemVisible ==
    entry_phase \in {2, 3} =>
        /\ stem_alpha = Scale
        /\ stem_data = <<<<0, 0>>, <<center_radius, stem_height>>>>

\* C4: frame_count is reset to 0 on every phase transition, and the elapsed
\* value the timing logic of an evaluation reads is measured from that
\* reset: it equals the number of evaluations since the reset (0 at entry).
C4_ElapsedFromReset ==
    [][/\ (animation_phase' # animation_phase => frame_count' = 0)
       /\ frame' = phase_calls]_vars

\* The petal that was started first is fully bloomed.
EarliestPetalBloomed ==
    \A i \in StartedPetals :
        (\A j \in StartedPetals : petal_bloom_starts[i] <= petal_bloom_starts[j])
            => petal_alpha[i] = Scale

\* C5 (as claimed): after 20 evaluations in Petals exactly 1 petal has a start
\* frame; after 220 all 12 have one and the earliest is fully bloomed.
C5_Original ==
    /\ (animation_phase = 1 /\ phase_calls = bloom_stagger)
          => Cardinality(StartedPetals) = 1
    /\ (animation_phase = 1 /\ phase_calls = 220)
          => (Cardinality(StartedPetals) = num_petals /\ EarliestPetalBloomed)

\* C5 (amended): after 20 evaluations in Petals exactly 1 petal has a start
\* frame; after 220 evaluations 11 of the 12 have one and the earliest is
\* fully bloomed; all 12 have one after 240 evaluations.
C5_PetalSchedule ==
    /\ (animation_phase = 1 /\ phase_calls = bloom_stagger)
          => Cardinality(StartedPetals) = 1
    /\ (animation_phase = 1 /\ phase_calls = 220)
          => (Cardinality(StartedPetals) = num_petals - 1 /\ EarliestPetalBloomed)
    /\ (animation_phase = 1 /\ phase_calls = 240)
          => (Cardinality(StartedPetals) = num_petals /\ EarliestPetalBloomed)

C5_Witness ==
    /\ animation_phase = 1
    /\ phase_calls = 220
    /\ Cardinality(StartedPetals) = num_petals - 1
    /\ petal_alpha[1] = Scale

\* C6: the driver is never in Petals after an evaluation at which all 12
\* petals had progress = 1: the evaluation that sees them complete leaves
\* the phase.
C6_LeavesPetalsWhenComplete ==
    AllPetalsComplete => animation_phase # 1

\* The evaluation made in Petals at which all petals are complete.
C6_Witness ==
    entry_phase = 1 /\ AllPetalsComplete /\ animation_phase = 2

\* C7: every entry of petal_bloom_starts and of leaf_unfurl_starts is set to
\* a non-zero frame exactly once: once non-zero it never changes, no trigger
\* records frame 0, and every entry has been set by the time the host has
\* delivered all total_frames frames of a run.
C7_StartsSetOnce ==
    [][/\ \A i \in DOMAIN petal_bloom_starts :
             /\ petal_bloom_starts[i] # 0
                   => petal_bloom_starts'[i] = petal_bloom_starts[i]
             /\ (i = current_petal_index + 1
                 /\ current_petal_index' = current_petal_index + 1)
                   => petal_bloom_starts'[i] # 0
       /\ \A i \in DOMAIN leaf_unfurl_starts :
             leaf_unfurl_starts[i] # 0
                   => leaf_unfurl_starts'[i] = leaf_unfurl_starts[i]
       /\ evals' >= total_frames =>
             /\ \A i \in DOMAIN petal_bloom_starts : petal_bloom_starts'[i] # 0
             /\ \A i \in DOMAIN leaf_unfurl_starts : leaf_unfurl_starts'[i] # 0]_vars

\* C8: every leaf's width is at most leaf_size and its height is 0.7 times
\* its width, in every state.
C8_LeafSize ==
    \A i \in 1..num_leaves :
        /\ leaf_width[i] <= leaf_size * Scale
        /\ leaf_height[i] * 10 = leaf_width[i] * 7

\* A leaf part-way through its unfurl.
C8_Witness ==
    /\ entry_phase = 2
    /\ \E i \in 1..num_leaves :
          0 < leaf_width[i] /\ leaf_width[i] < leaf_size * Scale

C10_UnitRange ==
    /\ \A p \in progress_applied : InUnit(p)
    /\ InUnit(center_alpha)
    /\ InUnit(title_alpha)
    /\ InUnit(label_alpha)
    /\ InUnit(stem_alpha)
    /\ \A i \in 1..num_petals : InUnit(petal_alpha[i])
    /\ \A i \in 1..num_leaves : InUnit(leaf_alpha[i])

\* Petals evaluated with one petal fully bloomed and another part-way.
C10_Witness ==
    /\ entry_phase = 1
    /\ Scale \in progress_applied
    /\ \E p \in progress_applied : 0 < p /\ p < Scale

\* C11: leaves unfurl left then right: in each of the 3 pairs the left leaf
\* (even index) has its unfurl start no later than the right leaf (odd
\* index): whenever the right leaf is started, the left one is started at
\* the same or an earlier frame.
C11_LeftBeforeRight ==
    \A pair \in 1..Len(leaf_positions) :
        LET left == leaf_unfurl_starts[2 * pair - 1]
            right == leaf_unfurl_starts[2 * pair]
        IN  right # 0 => (left # 0 /\ left <= right)

\* C12: every petal outline has as many curve-segment tags as points, so the
\* path can be constructed, and its points are in the order base-left, the
\* two bulge control points, tip, base-right, close.
C12_PathWellFormed ==
    \A i \in 1..num_petals :
        LET path == petal_path[i]
            length == path.verts[1][2] * (-1)
        IN  /\ Len(path.verts) = Len(path.codes)
            /\ path.verts[1] = <<0, -length>>
            /\ path.verts[2][1] = Times(length, 5, 10)
            /\ path.verts[3][1] = Times(length, 5, 10)
            /\ path.verts[4] = <<Times(length, 12, 10), 0>>
            /\ path.verts[5] = <<0, length>>
            /\ path.verts[6] = <<0, -Times(length, 8, 10)>>

\* The outline of a petal at full length and width, untwisted or fully twisted.
FullPetal(path) ==
    /\ path.verts[2] = <<(petal_length * Scale * 12) \div 10, 0>>
    /\ path.verts[3] = <<(petal_length * Scale) \div 2, (petal_width * Scale) \div 2>>

\* C13: no phase is left before its elements are complete: in the state
\* right after Petals -> StemLeaves every petal has a start frame, opacity 1
\* and full length and width; in the state right after StemLeaves -> Sway
\* every leaf has a start frame, width leaf_size and opacity 1.
C13_CompleteAtTransition ==
    /\ (entry_phase = 1 /\ animation_phase = 2) =>
          \A i \in 1..num_petals :
              /\ petal_bloom_starts[i] > 0
              /\ petal_alpha[i] = Scale
              /\ FullPetal(petal_path[i])
    /\ (entry_phase = 2 /\ animation_phase = 3) =>
          \A i \in 1..num_leaves :
              /\ leaf_unfurl_starts[i] > 0
              /\ leaf_width[i] = leaf_size * Scale
              /\ leaf_alpha[i] = Scale

\* The state right after StemLeaves -> Sway (reached through the state
\* right after Petals -> StemLeaves).
C13_Witness ==
    /\ entry_phase = 2
    /\ animation_phase = 3
    /\ \A i \in 1..num_petals : petal_alpha[i] = Scale
    /\ \A i \in 1..num_leaves : leaf_alpha[i] = Scale

\* C14: petals are launched one at a time in index order: an evaluation in
\* Petals at a frame with frame % bloom_stagger = 0 launches exactly the next
\* petal while fewer than 12 are launched, and no other evaluation launches
\* any; current_petal_index is the number of petals with a start frame, the
\* started petals are exactly the first current_petal_index ones, and
\* consecutive start frames differ by exactly bloom_stagger.
C14_LaunchOrder ==
    [][/\ current_petal_index' = Cardinality({i \in 1..num_petals :
                                                petal_bloom_starts'[i] # 0})
       /\ \A i \in 1..num_petals :
             petal_bloom_starts'[i] # 0 <=> i <= current_petal_index'
       /\ \A i \in 2..num_petals :
             petal_bloom_starts'[i] # 0 =>
                petal_bloom_starts'[i] - petal_bloom_starts'[i - 1] = bloom_stagger
       /\ IF animation_phase = 1 /\ frame' % bloom_stagger = 0
             /\ current_petal_index < num_petals
          THEN /\ current_petal_index' = current_petal_index + 1
               /\ petal_bloom_starts'[current_petal_index'] = frame'
          ELSE /\ current_petal_index' = current_petal_index
               /\ petal_bloom_starts' = petal_bloom_starts]_vars

\* Petals with some petals launched and some not yet.
C14_Witness ==
    /\ animation_phase = 1
    /\ current_petal_index > 2
    /\ current_petal_index < num_petals
    /\ petal_bloom_starts[current_petal_index] = frame

\* All six points of the outline coincide with its center.
ZeroSize(path) == \A k \in DOMAIN path.verts : path.verts[k] = <<0, 0>>

\* C15: before Sway an element that has not started is invisible: a petal
\* whose bloom start is still 0 has opacity 0 and a zero-size outline, a leaf
\* whose unfurl start is still 0 has opacity 0 and zero width and height.
C15_UnstartedInvisible ==
    animation_phase < 3 =>
        /\ \A i \in 1..num_petals :
              petal_bloom_starts[i] = 0 =>
                  (petal_alpha[i] = 0 /\ ZeroSize(petal_path[i]))
        /\ \A i \in 1..num_leaves :
              leaf_unfurl_starts[i] = 0 =>
                  (leaf_alpha[i] = 0 /\ leaf_width[i] = 0 /\ leaf_height[i] = 0)

\* Petals evaluated with a visible started petal and petals not yet started.
C15_Witness ==
    /\ entry_phase = 1
    /\ animation_phase = 1
    /\ \E i \in 1..num_petals : petal_bloom_starts[i] # 0 /\ petal_alpha[i] > 0
    /\ \E i \in 1..num_petals : petal_bloom_starts[i] = 0

\* C16: an evaluation in Center leaves the phase exactly when its frame is
\* >= center_fade_duration + phase_delay, so the phase is left at the first
\* such frame and not earlier; that evaluation sets current_petal_index to 0
\* and runs no Petals logic; the Petals logic first runs on the evaluation
\* that follows.
C16_CenterExit ==
    [][/\ animation_phase = 0 =>
             /\ animation_phase' \in {0, 1}
             /\ animation_phase' = 1 <=>
                   frame' >= center_fade_duration + phase_delay
       /\ (animation_phase = 0 /\ animation_phase' = 1) =>
             /\ current_petal_index' = 0
             /\ label_text' = "Center Appearing..."
             /\ UNCHANGED <<petal_bloom_starts, petal_path, petal_alpha>>
       /\ (entry_phase = 0 /\ animation_phase = 1) =>
             /\ entry_phase' = 1
             /\ label_text' = "Petals Blooming..."]_vars

\* The state right after the evaluation that left Center.
C16_Witness ==
    /\ entry_phase = 0
    /\ animation_phase = 1
    /\ frame = center_fade_duration + phase_delay
    /\ current_petal_index = 0

\* C17: every evaluation, in every phase, adds exactly sway_speed to
\* sway_angle and nothing resets it: after n evaluations it is
\* n * sway_speed, and it is non-zero after the first evaluation in Sway.
C17_SwayAccumulates ==
    [][/\ sway_angle' = sway_angle + sway_speed
       /\ sway_angle' = evals' * sway_speed
       /\ entry_phase' = 3 => sway_angle' > sway_speed]_vars

\* The state right after the first evaluation made in Sway.
C17_Witness ==
    /\ entry_phase = 3
    /\ phase_calls = 1
    /\ sway_angle = evals * sway_speed
    /\ sway_angle > 0

\* C18: when the host restarts the frame index at 0 after total_frames
\* frames, the animation is not restarted: the phase is Sway by the last
\* frame of the first pass and in every evaluation after it, those
\* evaluations change no bloom or unfurl start frame nor the petal index,
\* and no evaluation made in Petals or StemLeaves sees a frame smaller than
\* a recorded start.
C18_WrapKeepsState ==
    [][/\ evals' >= total_frames => animation_phase' = 3
       /\ evals' > total_frames =>
             /\ animation_phase = 3
             /\ UNCHANGED <<petal_bloom_starts, leaf_unfurl_starts,
                            current_petal_index>>
       /\ entry_phase' = 1 =>
             \A i \in 1..num_petals :
                 petal_bloom_starts[i] > 0 => frame' - petal_bloom_starts[i] >= 0
       /\ entry_phase' = 2 =>
             \A i \in 1..num_leaves :
                 leaf_unfurl_starts'[i] > 0 => frame' - leaf_unfurl_starts'[i] >= 0]_vars

\* The first evaluation after the wrap-around: frame 0 again, in Sway.
C18_Witness ==
    /\ evals = total_frames + 1
    /\ frame = 0
    /\ entry_phase = 3
    /\ animation_phase = 3

====
